---- MODULE Spec2Model ----
(***************************************************************************)
(* The event-completion payout workflow of kara-works-be:                  *)
(* POST /api/events/:id/finish (src/src/routes/event.ts) and the rows of   *)
(* the store it reads and writes (event, application, wallet,              *)
(* wallet_transaction), together with the two update handlers that write   *)
(* the same rows, PUT /api/events/:id and PUT /api/applications/:id.        *)
(*                                                                         *)
(* Every `await supabase...` of the finish handler is one atomic store     *)
(* operation followed by the handler's local code up to the next await;    *)
(* each is one action.  A store operation may return an error              *)
(* (parameter ok = FALSE).  Several finish requests may be in flight.       *)
(***************************************************************************)
EXTENDS Integers, Sequences, FiniteSets, TLC

\* ---------------------------------------------------------------- bounds
\* Inputs of a behaviour: requests received plus store operations that
\* return an error.
MaxInputs == 3

\* ------------------------------------------------------------- universe
Calls == {"c1", "c2"}                 \* request slots of the finish handler
Users == {"u1", "u2"}                 \* rows of "user"
EventIds == {"e1", "e2"}              \* ids a request may carry
\* The values a row's event_salary can have in the handler, as JavaScript
\* values: a number, null, undefined (no such field) or a string.
Num(n) == [number |-> n]
JsNull == [null |-> TRUE]
JsUndefined == [undefined |-> TRUE]
Text(s) == [string |-> s]
NaN == [nan |-> TRUE]
SalaryValues == {Num(1), Num(2)}      \* event_salary values (DECIMAL, >= 0)
NULL == "null"
QR == "qr"                            \* some non-null clock_out_qr_data
AppIds == {"a1", "a2", "a3"}
AppEvent == [a \in AppIds |-> IF a = "a3" THEN "e2" ELSE "e1"]
AppUser == [a \in AppIds |-> IF a = "a2" THEN "u2" ELSE "u1"]
InitSalary == [e \in EventIds |-> IF e = "e1" THEN Num(1) ELSE Num(2)]
UserOrder == <<"u1", "u2">>           \* the order in which users were created
NewUserId == "u3"                     \* the user_id the store gives the next user row
PhoneOf == [u \in Users |-> IF u = "u1" THEN "p1" ELSE "p2"]
NewPhone == "p3"                      \* a user_phone no row has at the start
CallOrder == <<"c1", "c2">>

VARIABLES
    event,               \* event_id -> [event_salary, event_status]
    application,         \* application_id -> row of application
    wallet,              \* set of rows [wallet_id, user_id, wallet_balance]
    wallet_transaction,  \* sequence of rows, in insertion order
    call,                \* slot -> the finish invocation running in it
    before,              \* slot -> wallet and application rows when its request arrived
    wasFinished,         \* events whose event_status has been written 'finished'
    nInputs,             \* requests received and store errors returned so far
    user,                \* set of rows [user_id, user_phone]
    post                 \* the POST /api/users or /api/applications invocation

vars == <<event, application, wallet, wallet_transaction, call, before,
          wasFinished, nInputs, user, post>>
store == <<event, application, wallet, wallet_transaction>>

\* ------------------------------------------------------------- helpers
\* Response bodies are records holding the fields the handler sends.
NoResponse == [status |-> 0]
NoBefore == [wallet |-> {}, application |-> << >>]

\* faulted: a store operation of this invocation has returned an error.
\* credited: the rows for which this invocation has written a balance and
\* inserted a transaction, in that order of time.
IdleCall == [pc |-> "idle", id |-> NULL, event_salary |-> Num(0), applications |-> << >>,
             k |-> 0, walletId |-> 0, currentBalance |-> 0, processed |-> << >>,
             credited |-> << >>, faulted |-> FALSE, response |-> NoResponse]

\* No POST /api/users or /api/applications invocation has been started.
NoBody == [none |-> TRUE]
IdlePost == [pc |-> "idle", body |-> NoBody, user_id |-> NULL, response |-> NoResponse]

\* The handler has returned: its locals are gone, the response stays.
Returned(c, res) == [IdleCall EXCEPT !.pc = "done", !.id = c.id, !.response = res]

InFlight(p) == call[p].pc \notin {"idle", "done"}

\* The slot a new request is given: the first one with no invocation in flight.
FreeSlot == IF \A p \in Calls : InFlight(p) THEN NULL
            ELSE CallOrder[CHOOSE i \in DOMAIN CallOrder :
                              /\ ~InFlight(CallOrder[i])
                              /\ \A j \in 1..(i - 1) : InFlight(CallOrder[j])]

\* All orders in which the store may return the rows of S.
Orderings(S) == {s \in [1..Cardinality(S) -> S] : \A i, j \in DOMAIN s : s[i] = s[j] => i = j}

\* The strings that are numerals, with the numbers they denote.
Numerals == [s \in {"", "12"} |-> IF s = "" THEN 0 ELSE 12]

\* Number(v): a number is itself, null is 0, a numeral string is its number,
\* and undefined or another string is NaN.
ToNumber(v) ==
    IF "number" \in DOMAIN v THEN v
    ELSE IF "null" \in DOMAIN v THEN Num(0)
    ELSE IF "string" \in DOMAIN v /\ v.string \in DOMAIN Numerals THEN Num(Numerals[v.string])
    ELSE NaN

\* Mutant: a fee of 1 is taken off the salary.
Amount_LessFee(v) ==
    IF "number" \in DOMAIN ToNumber(v) /\ ToNumber(v).number > 0
    THEN ToNumber(v).number - 1 ELSE 0

\* Number(event.event_salary) || 0: NaN and 0 are falsy
Amount(v) ==
    IF "number" \in DOMAIN ToNumber(v) /\ ToNumber(v).number # 0
    THEN ToNumber(v).number ELSE 0

\* .from('wallet').select(...).eq('user_id', userId)
WalletsOf(u) == {w \in wallet : w.user_id = u}

RECURSIVE SumAmounts(_)
SumAmounts(txs) == IF txs = << >> THEN 0
                   ELSE Head(txs).transaction_amount + SumAmounts(Tail(txs))

TxOfEvent(e) == SelectSeq(wallet_transaction, LAMBDA t : t.transaction_event_id = e)
TxOfWallet(w) == SelectSeq(wallet_transaction, LAMBDA t : t.wallet_id = w)

\* n more inputs, within MaxInputs.
Spend(n) == /\ nInputs + n <= MaxInputs
            /\ nInputs' = nInputs + n

\* A store operation of a running invocation; one that returns an error is an input.
Fault(ok) == Spend(IF ok THEN 0 ELSE 1)

\* res.status(code).json({ error })
ErrorResponse(code) == [status |-> code, error |-> "error"]

\* catch (error) { res.status(500)... }
Throw(p) == /\ call' = [call EXCEPT ![p] = Returned(@, ErrorResponse(500))]
            /\ before' = [before EXCEPT ![p] = NoBefore]

\* ----------------------------------------------------------------- Init
\* The store holds the events E, the applications made to them, some of them
\* clocked out, and the wallets of the first users; no invocation is running.
InitRows(E) ==
    /\ event = [e \in E |-> [event_salary |-> InitSalary[e], event_status |-> "posted"]]
    /\ \E clocked \in SUBSET {x \in AppIds : AppEvent[x] \in E} :
          application = [a \in {x \in AppIds : AppEvent[x] \in E} |->
              [event_id |-> AppEvent[a], user_id |-> AppUser[a],
               application_status |-> "applied",
               clock_out_qr_data |-> IF a \in clocked THEN QR ELSE NULL]]
    /\ \E n \in 0..Cardinality(Users) :
          wallet = {[wallet_id |-> i, user_id |-> UserOrder[i], wallet_balance |-> 0] : i \in 1..n}
    /\ wallet_transaction = << >>
    /\ call = [p \in Calls |-> IdleCall]
    /\ before = [p \in Calls |-> NoBefore]
    /\ wasFinished = {}
    /\ nInputs = 0
    /\ user = {[user_id |-> u, user_phone |-> PhoneOf[u]] : u \in Users}
    /\ post = IdlePost

\* One event, "e1", with two applications; "e2" names no event row.
Init == InitRows({"e1"})

\* ------------------------------------------- POST /api/events/:id/finish
\* Mutant: the handler keeps its locals in one place shared by all requests,
\* so a request that arrives takes over a slot whether or not it is free.
Receive_SharedLocals(p, id) ==
    /\ UNCHANGED <<user, post>>
    /\ Spend(1)
    /\ call' = [call EXCEPT ![p] = [IdleCall EXCEPT !.pc = "loadEvent", !.id = id]]
    /\ before' = [before EXCEPT ![p] = [wallet |-> wallet, application |-> application]]
    /\ UNCHANGED <<store, wasFinished>>

\* The request arrives: const { id } = req.params, and the event select is issued.
Receive(p, id) ==
    /\ UNCHANGED <<user, post>>
    /\ p = FreeSlot
    /\ Spend(1)
    /\ call' = [call EXCEPT ![p] = [IdleCall EXCEPT !.pc = "loadEvent", !.id = id]]
    /\ before' = [before EXCEPT ![p] = [wallet |-> wallet, application |-> application]]
    /\ UNCHANGED <<store, wasFinished>>

\* Mutant: the guard on event_status is left out.
EventGuard_NoFinishedCheck(id, ok) ==
    IF ~ok \/ id \notin DOMAIN event THEN 404 ELSE 0

\* Mutant: a missing event is thrown to the catch block instead of answered 404.
EventGuard_MissingThrows(id, ok) ==
    IF ~ok \/ id \notin DOMAIN event THEN 500
    ELSE IF event[id].event_status = "finished" THEN 400
    ELSE 0

\* Mutant: a call is also turned away while another call is paying the event.
EventGuard_OneAtATime(id, ok) ==
    IF ~ok \/ id \notin DOMAIN event THEN 404
    ELSE IF event[id].event_status = "finished" THEN 400
    ELSE IF \E q \in Calls : InFlight(q) /\ call[q].pc # "loadEvent" /\ call[q].id = id
         THEN 400
    ELSE 0

\* if (eventError || !event) 404; if (event.event_status === 'finished') 400
EventGuard(id, ok) ==
    IF ~ok \/ id \notin DOMAIN event THEN 404
    ELSE IF event[id].event_status = "finished" THEN 400
    ELSE 0

\* 1) pull event and guard
LoadEvent(p, ok) ==
    /\ UNCHANGED <<user, post>>
    /\ call[p].pc = "loadEvent"
    /\ Fault(ok)
    /\ UNCHANGED <<store, wasFinished>>
    /\ LET code == EventGuard(call[p].id, ok) IN
       IF code # 0
       THEN /\ call' = [call EXCEPT ![p] = Returned(@, ErrorResponse(code))]
            /\ before' = [before EXCEPT ![p] = NoBefore]
       ELSE /\ call' = [call EXCEPT ![p] = [@ EXCEPT !.pc = "queryApps",
                               !.event_salary = event[call[p].id].event_salary]]
            /\ UNCHANGED before

\* Mutant: the query also asks for application_status other than 'finished'.
Eligible_NotYetFinished(id) ==
    {a \in DOMAIN application : /\ application[a].event_id = id
                                /\ application[a].clock_out_qr_data # NULL
                                /\ application[a].application_status # "finished"}

\* Mutant: the query leaves out .not('clock_out_qr_data', 'is', null).
Eligible_NoClockOutFilter(id) == {a \in DOMAIN application : application[a].event_id = id}

\* The rows the eligibility query matches.
Eligible(id) == {a \in DOMAIN application :
                    /\ application[a].event_id = id
                    /\ application[a].clock_out_qr_data # NULL}

\* 2) get applications that clocked out
QueryApps(p, ok) ==
    /\ UNCHANGED <<user, post>>
    /\ call[p].pc = "queryApps"
    /\ Fault(ok)
    /\ UNCHANGED <<store, wasFinished>>
    /\ IF ~ok THEN Throw(p)
       ELSE /\ \E rows \in Orderings(Eligible(call[p].id)) :
                 call' = [call EXCEPT ![p] =
                    [@ EXCEPT !.applications = [i \in DOMAIN rows |->
                                  [application_id |-> rows[i],
                                   user_id |-> application[rows[i]].user_id]],
                              !.k = 1,
                              !.pc = IF rows = << >> THEN "finishEmpty" ELSE "readWallet"]]
            /\ UNCHANGED before

\* applications.length === 0: update the event, ignore the result, respond.
FinishEmpty(p, ok) ==
    /\ UNCHANGED <<user, post>>
    /\ call[p].pc = "finishEmpty"
    /\ Fault(ok)
    /\ event' = IF ok THEN [event EXCEPT ![call[p].id].event_status = "finished"] ELSE event
    /\ wasFinished' = IF ok THEN wasFinished \cup {call[p].id} ELSE wasFinished
    /\ call' = [call EXCEPT ![p] = Returned(@,
                    [status |-> 200, message |-> "no clocked-out workers", processed |-> 0])]
    /\ before' = [before EXCEPT ![p] = NoBefore]
    /\ UNCHANGED <<application, wallet, wallet_transaction>>

\* Mutant: the loop walks the list from its end.
Current_FromTheEnd(p) == call[p].applications[Len(call[p].applications) + 1 - call[p].k]

\* The application of the current loop iteration.
Current(p) == call[p].applications[call[p].k]

\* fetch wallet: .single() gives the row, or an error when there is none
ReadWallet(p, ok) ==
    /\ UNCHANGED <<user, post>>
    /\ call[p].pc = "readWallet"
    /\ Fault(ok)
    /\ UNCHANGED <<store, wasFinished, before>>
    /\ LET found == WalletsOf(Current(p).user_id) IN
       IF ok /\ found # {}
       THEN \E w \in found :
              call' = [call EXCEPT ![p] = [@ EXCEPT !.walletId = w.wallet_id,
                                                    !.currentBalance = w.wallet_balance,
                                                    !.pc = "updateBalance"]]
       ELSE call' = [call EXCEPT ![p] = [@ EXCEPT !.faulted = @ \/ ~ok,
                                                  !.pc = "createWallet"]]

\* create wallet: the insert is refused when the user has one (UNIQUE(user_id))
CreateWallet(p, ok) ==
    /\ UNCHANGED <<user, post>>
    /\ call[p].pc = "createWallet"
    /\ Fault(ok)
    /\ UNCHANGED <<event, application, wallet_transaction, wasFinished>>
    /\ IF ~ok \/ WalletsOf(Current(p).user_id) # {}
       THEN /\ Throw(p)
            /\ UNCHANGED wallet
       ELSE LET newWallet == [wallet_id |-> Cardinality(wallet) + 1,
                              user_id |-> Current(p).user_id,
                              wallet_balance |-> 0] IN
            /\ wallet' = wallet \cup {newWallet}
            /\ call' = [call EXCEPT ![p] = [@ EXCEPT !.walletId = newWallet.wallet_id,
                                                     !.currentBalance = 0,
                                                     !.pc = "updateBalance"]]
            /\ UNCHANGED before

\* Mutant: the balance update has no .eq('wallet_id', walletId) and writes
\* the new balance to every wallet row.
UpdateBalance_NoFilter(p, ok) ==
    /\ UNCHANGED <<user, post>>
    /\ call[p].pc = "updateBalance"
    /\ Fault(ok)
    /\ UNCHANGED <<event, application, wallet_transaction, wasFinished>>
    /\ IF ~ok
       THEN /\ Throw(p)
            /\ UNCHANGED wallet
       ELSE LET newBalance == call[p].currentBalance + Amount(call[p].event_salary) IN
            /\ wallet' = {[w EXCEPT !.wallet_balance = newBalance] : w \in wallet}
            /\ call' = [call EXCEPT ![p] = [@ EXCEPT !.pc = "insertTx"]]
            /\ UNCHANGED before

\* Mutant: the loop goes from the balance update to the application update,
\* leaving the transaction insert out.
UpdateBalance_NoTransaction(p, ok) ==
    /\ UNCHANGED <<user, post>>
    /\ call[p].pc = "updateBalance"
    /\ Fault(ok)
    /\ UNCHANGED <<event, application, wallet_transaction, wasFinished>>
    /\ IF ~ok
       THEN /\ Throw(p)
            /\ UNCHANGED wallet
       ELSE LET newBalance == call[p].currentBalance + Amount(call[p].event_salary) IN
            /\ wallet' = {IF w.wallet_id = call[p].walletId
                          THEN [w EXCEPT !.wallet_balance = newBalance] ELSE w : w \in wallet}
            /\ call' = [call EXCEPT ![p] = [@ EXCEPT !.pc = "updateApp"]]
            /\ UNCHANGED before

\* Mutant: the salary is added to the balance the row holds at the write.
UpdateBalance_Increment(p, ok) ==
    /\ UNCHANGED <<user, post>>
    /\ call[p].pc = "updateBalance"
    /\ Fault(ok)
    /\ UNCHANGED <<event, application, wallet_transaction, wasFinished>>
    /\ IF ~ok
       THEN /\ Throw(p)
            /\ UNCHANGED wallet
       ELSE /\ wallet' = {IF w.wallet_id = call[p].walletId
                          THEN [w EXCEPT !.wallet_balance = @ + Amount(call[p].event_salary)]
                          ELSE w : w \in wallet}
            /\ call' = [call EXCEPT ![p] = [@ EXCEPT !.pc = "insertTx"]]
            /\ UNCHANGED before

\* newBalance = currentBalance + salary, written to the wallet row
UpdateBalance(p, ok) ==
    /\ UNCHANGED <<user, post>>
    /\ call[p].pc = "updateBalance"
    /\ Fault(ok)
    /\ UNCHANGED <<event, application, wallet_transaction, wasFinished>>
    /\ IF ~ok
       THEN /\ Throw(p)
            /\ UNCHANGED wallet
       ELSE LET newBalance == call[p].currentBalance + Amount(call[p].event_salary) IN
            /\ wallet' = {IF w.wallet_id = call[p].walletId
                          THEN [w EXCEPT !.wallet_balance = newBalance] ELSE w : w \in wallet}
            /\ call' = [call EXCEPT ![p] = [@ EXCEPT !.pc = "insertTx"]]
            /\ UNCHANGED before

\* Mutant: the transaction is upserted on (wallet, event): the rows the
\* wallet has for the event are replaced by the new one.
InsertTx_Upsert(p, ok) ==
    /\ UNCHANGED <<user, post>>
    /\ call[p].pc = "insertTx"
    /\ Fault(ok)
    /\ UNCHANGED <<event, application, wallet, wasFinished>>
    /\ IF ~ok
       THEN /\ Throw(p)
            /\ UNCHANGED wallet_transaction
       ELSE /\ wallet_transaction' = Append(
                    SelectSeq(wallet_transaction,
                              LAMBDA t : ~(t.wallet_id = call[p].walletId
                                           /\ t.transaction_event_id = call[p].id)),
                    [wallet_id |-> call[p].walletId,
                     transaction_event_id |-> call[p].id,
                     transaction_wd_id |-> NULL,
                     transaction_amount |-> Amount(call[p].event_salary)])
            /\ call' = [call EXCEPT ![p] = [@ EXCEPT !.credited = Append(@, Current(p)),
                                                     !.pc = "updateApp"]]
            /\ UNCHANGED before

\* Mutant: the transaction row is written without its event reference.
InsertTx_NoOrigin(p, ok) ==
    /\ UNCHANGED <<user, post>>
    /\ call[p].pc = "insertTx"
    /\ Fault(ok)
    /\ UNCHANGED <<event, application, wallet, wasFinished>>
    /\ IF ~ok
       THEN /\ Throw(p)
            /\ UNCHANGED wallet_transaction
       ELSE /\ wallet_transaction' = Append(wallet_transaction,
                    [wallet_id |-> call[p].walletId,
                     transaction_event_id |-> NULL,
                     transaction_wd_id |-> NULL,
                     transaction_amount |-> Amount(call[p].event_salary)])
            /\ call' = [call EXCEPT ![p] = [@ EXCEPT !.credited = Append(@, Current(p)),
                                                     !.pc = "updateApp"]]
            /\ UNCHANGED before

\* Mutant: a failed transaction insert is logged and the loop goes on.
InsertTx_ContinueOnError(p, ok) ==
    /\ UNCHANGED <<user, post>>
    /\ call[p].pc = "insertTx"
    /\ Fault(ok)
    /\ UNCHANGED <<event, application, wallet, wasFinished, before>>
    /\ wallet_transaction' = IF ~ok THEN wallet_transaction
                             ELSE Append(wallet_transaction,
                                    [wallet_id |-> call[p].walletId,
                                     transaction_event_id |-> call[p].id,
                                     transaction_wd_id |-> NULL,
                                     transaction_amount |-> Amount(call[p].event_salary)])
    /\ call' = [call EXCEPT ![p] = [@ EXCEPT !.credited = IF ok THEN Append(@, Current(p)) ELSE @,
                                             !.pc = "updateApp"]]

\* insert into wallet_transaction
InsertTx(p, ok) ==
    /\ UNCHANGED <<user, post>>
    /\ call[p].pc = "insertTx"
    /\ Fault(ok)
    /\ UNCHANGED <<event, application, wallet, wasFinished>>
    /\ IF ~ok
       THEN /\ Throw(p)
            /\ UNCHANGED wallet_transaction
       ELSE /\ wallet_transaction' = Append(wallet_transaction,
                    [wallet_id |-> call[p].walletId,
                     transaction_event_id |-> call[p].id,
                     transaction_wd_id |-> NULL,
                     transaction_amount |-> Amount(call[p].event_salary)])
            /\ call' = [call EXCEPT ![p] = [@ EXCEPT !.credited = Append(@, Current(p)),
                                                     !.pc = "updateApp"]]
            /\ UNCHANGED before

\* Mutant: the loop does not move on to the next application.
UpdateApp_SameRowAgain(p, ok) ==
    /\ UNCHANGED <<user, post>>
    /\ call[p].pc = "updateApp"
    /\ Fault(ok)
    /\ UNCHANGED <<event, wallet, wallet_transaction, wasFinished>>
    /\ IF ~ok
       THEN /\ Throw(p)
            /\ UNCHANGED application
       ELSE /\ application' = [application EXCEPT
                    ![Current(p).application_id].application_status = "finished"]
            /\ call' = [call EXCEPT ![p] =
                    [@ EXCEPT !.processed = Append(@, Current(p)),
                              !.pc = IF Len(call[p].processed) < Len(call[p].applications)
                                     THEN "readWallet" ELSE "markFinished"]]
            /\ UNCHANGED before

\* Mutant: the row is pushed on processed before the application update is
\* awaited, and again after it.
UpdateApp_PushTwice(p, ok) ==
    /\ UNCHANGED <<user, post>>
    /\ call[p].pc = "updateApp"
    /\ Fault(ok)
    /\ UNCHANGED <<event, wallet, wallet_transaction, wasFinished>>
    /\ IF ~ok
       THEN /\ Throw(p)
            /\ UNCHANGED application
       ELSE /\ application' = [application EXCEPT
                    ![Current(p).application_id].application_status = "finished"]
            /\ call' = [call EXCEPT ![p] =
                    [@ EXCEPT !.processed = Append(Append(@, Current(p)), Current(p)),
                              !.k = @ + 1,
                              !.pc = IF call[p].k < Len(call[p].applications)
                                     THEN "readWallet" ELSE "markFinished"]]
            /\ UNCHANGED before

\* application_status: 'finished'; processed.push; next iteration or leave the loop
UpdateApp(p, ok) ==
    /\ UNCHANGED <<user, post>>
    /\ call[p].pc = "updateApp"
    /\ Fault(ok)
    /\ UNCHANGED <<event, wallet, wallet_transaction, wasFinished>>
    /\ IF ~ok
       THEN /\ Throw(p)
            /\ UNCHANGED application
       ELSE /\ application' = [application EXCEPT
                    ![Current(p).application_id].application_status = "finished"]
            /\ call' = [call EXCEPT ![p] =
                    [@ EXCEPT !.processed = Append(@, Current(p)),
                              !.k = @ + 1,
                              !.pc = IF call[p].k < Len(call[p].applications)
                                     THEN "readWallet" ELSE "markFinished"]]
            /\ UNCHANGED before

\* 4) mark the event finished, respond 200
MarkFinished(p, ok) ==
    /\ UNCHANGED <<user, post>>
    /\ call[p].pc = "markFinished"
    /\ Fault(ok)
    /\ UNCHANGED <<application, wallet, wallet_transaction>>
    /\ IF ~ok
       THEN /\ Throw(p)
            /\ UNCHANGED <<event, wasFinished>>
       ELSE /\ event' = [event EXCEPT ![call[p].id].event_status = "finished"]
            /\ wasFinished' = wasFinished \cup {call[p].id}
            /\ call' = [call EXCEPT ![p] = Returned(@,
                    [status |-> 200, message |-> "credited",
                     processedCount |-> Len(call[p].processed),
                     processed |-> call[p].processed])]
            /\ before' = [before EXCEPT ![p] = NoBefore]

\* One step of the finish invocation in slot p.
FinishStep(p, ok) ==
    \/ LoadEvent(p, ok)
    \/ QueryApps(p, ok)
    \/ FinishEmpty(p, ok)
    \/ ReadWallet(p, ok)
    \/ CreateWallet(p, ok)
    \/ UpdateBalance(p, ok)
    \/ InsertTx(p, ok)
    \/ UpdateApp(p, ok)
    \/ MarkFinished(p, ok)

\* ------------------------------------------------- PUT /api/events/:id
\* A request body is a record holding the fields the client sent.
Has(body, f) == f \in DOMAIN body

\* The update that succeeds; a request that fails leaves the store as it is.
PutEvent(e, body) ==
    /\ UNCHANGED <<user, post>>
    /\ Spend(1)
    /\ e \in DOMAIN event
    /\ DOMAIN body # {}
    /\ event' = [event EXCEPT ![e] =
                    [event_salary |-> IF Has(body, "event_salary") THEN body.event_salary
                                      ELSE @.event_salary,
                     event_status |-> IF Has(body, "event_status") THEN body.event_status
                                      ELSE @.event_status]]
    /\ wasFinished' = IF Has(body, "event_status") /\ body.event_status = "finished"
                      THEN wasFinished \cup {e} ELSE wasFinished
    /\ UNCHANGED <<application, wallet, wallet_transaction, call, before>>

\* ------------------------------------------- PUT /api/applications/:id
PutApplication(a, body) ==
    /\ UNCHANGED <<user, post>>
    /\ Spend(1)
    /\ a \in DOMAIN application
    /\ DOMAIN body # {}
    /\ application' = [application EXCEPT ![a] =
           [@ EXCEPT !.application_status = IF Has(body, "application_status")
                                            THEN body.application_status ELSE @,
                     !.clock_out_qr_data = IF Has(body, "clock_out_qr_data")
                                           THEN body.clock_out_qr_data ELSE @]]
    /\ UNCHANGED <<event, wallet, wallet_transaction, call, before, wasFinished>>

\* Request bodies the clients send.
EventBodies ==
    [event_status : {"posted", "finished"}] \cup [event_salary : SalaryValues \ {Num(1)}]

ApplicationBodies ==
    [clock_out_qr_data : {NULL, QR}] \cup [application_status : {"accepted"}]

\* ------------------------------------------------------ POST handlers
\* One POST /api/users or POST /api/applications invocation runs at a time.
PostFree == post.pc \in {"idle", "done"}

\* res.status(code).json(...) of a POST handler
PostReturned(res) == [IdlePost EXCEPT !.pc = "done", !.response = res]

\* The frame of a POST handler step that writes no row.
PostReadOnly == UNCHANGED <<store, call, before, wasFinished, user>>

\* ------------------------------------------------------- POST /api/users
\* Request bodies: a worker, a hotel user without hotel_id, an unknown role,
\* with a phone some row has or a new one; and a body without user_phone.
UserBodies ==
    [user_phone : {PhoneOf["u1"], NewPhone}, user_name : {"n"},
     user_role : {"worker", "hotel", "guest"}]
    \cup {[user_name |-> "n", user_role |-> "worker"]}

\* The validation of the body; 0 when it passes.
UserBodyCode(body) ==
    IF ~Has(body, "user_phone") \/ ~Has(body, "user_name") \/ ~Has(body, "user_role") THEN 400
    ELSE IF body.user_role \notin {"hotel", "worker"} THEN 400
    ELSE IF body.user_role = "hotel" /\ ~Has(body, "hotel_id") THEN 400
    ELSE 0

\* The request arrives and is validated; the user insert is issued.
ReceiveUser(body) ==
    /\ PostFree
    /\ Spend(1)
    /\ PostReadOnly
    /\ post' = IF UserBodyCode(body) # 0
               THEN PostReturned(ErrorResponse(UserBodyCode(body)))
               ELSE [IdlePost EXCEPT !.pc = "insertUser", !.body = body]

\* insert into "user": refused when the phone is taken (UNIQUE(user_phone))
InsertUser(ok) ==
    /\ post.pc = "insertUser"
    /\ Fault(ok)
    /\ UNCHANGED <<store, call, before, wasFinished>>
    /\ IF ~ok
       THEN post' = PostReturned(ErrorResponse(500)) /\ UNCHANGED user
       ELSE IF \E u \in user : u.user_phone = post.body.user_phone
       THEN post' = PostReturned(ErrorResponse(409)) /\ UNCHANGED user
       ELSE /\ user' = user \cup {[user_id |-> NewUserId, user_phone |-> post.body.user_phone]}
            /\ post' = [post EXCEPT !.pc = "insertWallet", !.user_id = NewUserId]

\* insert into wallet; an error is logged and the response is sent all the
\* same. `wallet: null` is the response without the field wallet.
InsertUserWallet(ok) ==
    /\ post.pc = "insertWallet"
    /\ Fault(ok)
    /\ UNCHANGED <<event, application, wallet_transaction, call, before, wasFinished, user>>
    /\ IF ~ok \/ WalletsOf(post.user_id) # {}
       THEN /\ UNCHANGED wallet
            /\ post' = PostReturned([status |-> 201, data |-> [user_id |-> post.user_id]])
       ELSE LET walletData == [wallet_id |-> Cardinality(wallet) + 1,
                               user_id |-> post.user_id,
                               wallet_balance |-> 0] IN
            /\ wallet' = wallet \cup {walletData}
            /\ post' = PostReturned([status |-> 201, data |-> [user_id |-> post.user_id],
                                     wallet |-> walletData])

\* ------------------------------------------------ POST /api/applications
\* Request bodies: an event and a user, either of which may name no row,
\* and a body without event_id.
ApplyBodies ==
    [event_id : EventIds, user_id : Users \cup {NewUserId}]
    \cup {[user_id |-> "u1"],
          [event_id |-> "e1", user_id |-> "u2", application_status |-> "accepted"]}

\* 'User has already applied to this event'
AlreadyApplied == [status |-> 409, error |-> "already applied"]

\* The request arrives and is validated; the event select is issued.
ReceiveApplication(body) ==
    /\ PostFree
    /\ Spend(1)
    /\ PostReadOnly
    /\ post' = IF ~Has(body, "event_id") \/ ~Has(body, "user_id")
               THEN PostReturned(ErrorResponse(400))
               ELSE [IdlePost EXCEPT !.pc = "selectEvent", !.body = body]

\* Validate event_id exists in database
SelectEvent(ok) ==
    /\ post.pc = "selectEvent"
    /\ Fault(ok)
    /\ PostReadOnly
    /\ post' = IF ~ok \/ post.body.event_id \notin DOMAIN event
               THEN PostReturned(ErrorResponse(404))
               ELSE [post EXCEPT !.pc = "selectUser"]

\* Validate user_id exists in database
SelectUser(ok) ==
    /\ post.pc = "selectUser"
    /\ Fault(ok)
    /\ PostReadOnly
    /\ post' = IF ~ok \/ ~\E u \in user : u.user_id = post.body.user_id
               THEN PostReturned(ErrorResponse(404))
               ELSE [post EXCEPT !.pc = "insertApplication"]

\* The rows of application for event e and user u.
Applied(e, u) ==
    {a \in DOMAIN application : application[a].event_id = e /\ application[a].user_id = u}

\* The application_id the store gives the next row.
NewAppId == CHOOSE a \in AppIds \ DOMAIN application : TRUE

\* Mutant: the table has no UNIQUE(event_id, user_id).
InsertRefused_NoUnique(e, u) == FALSE

\* UNIQUE(event_id, user_id): the insert is refused with code 23505.
InsertRefused(e, u) == Applied(e, u) # {}

\* insert into application; 23505 is answered 409, another error 500
InsertApplication(ok) ==
    /\ post.pc = "insertApplication"
    /\ Fault(ok)
    /\ UNCHANGED <<event, wallet, wallet_transaction, call, before, wasFinished, user>>
    /\ IF ~ok
       THEN post' = PostReturned(ErrorResponse(500)) /\ UNCHANGED application
       ELSE IF InsertRefused(post.body.event_id, post.body.user_id)
       THEN post' = PostReturned(AlreadyApplied) /\ UNCHANGED application
       ELSE /\ AppIds \ DOMAIN application # {}
            /\ application' =
                 [a \in DOMAIN application \cup {NewAppId} |->
                     IF a = NewAppId
                     THEN [event_id |-> post.body.event_id, user_id |-> post.body.user_id,
                           application_status |->
                              IF Has(post.body, "application_status")
                              THEN post.body.application_status ELSE "applied",
                           clock_out_qr_data |-> NULL]
                     ELSE application[a]]
            /\ post' = PostReturned([status |-> 201, data |-> [application_id |-> NewAppId]])

\* ------------------------------------------------------- specifications
Next ==
    \/ \E p \in Calls, id \in EventIds : Receive(p, id)
    \/ \E p \in Calls, ok \in BOOLEAN : FinishStep(p, ok)
    \/ \E e \in EventIds, body \in EventBodies : PutEvent(e, body)
    \/ \E a \in AppIds, body \in ApplicationBodies : PutApplication(a, body)

Spec == Init /\ [][Next]_vars

\* One request at a time: a request is taken up only when no finish
\* invocation is in flight.
NextSeq ==
    \/ \E p \in Calls, id \in EventIds :
          (\A q \in Calls : ~InFlight(q)) /\ Receive(p, id)
    \/ \E p \in Calls, ok \in BOOLEAN : FinishStep(p, ok)
    \/ \E e \in EventIds, body \in EventBodies :
          (\A q \in Calls : ~InFlight(q)) /\ PutEvent(e, body)
    \/ \E a \in AppIds, body \in ApplicationBodies :
          (\A q \in Calls : ~InFlight(q)) /\ PutApplication(a, body)

SpecSeq == Init /\ [][NextSeq]_vars

\* One event with none, one or two applications; users are created and
\* apply while finish requests and application updates go on.
InitPosts ==
    /\ event = [e \in {"e1"} |-> [event_salary |-> InitSalary[e], event_status |-> "posted"]]
    /\ \E applied \in SUBSET {"a1", "a2"} : \E clocked \in SUBSET applied :
          application = [a \in applied |->
              [event_id |-> AppEvent[a], user_id |-> AppUser[a],
               application_status |-> "applied",
               clock_out_qr_data |-> IF a \in clocked THEN QR ELSE NULL]]
    /\ \E n \in 0..Cardinality(Users) :
          wallet = {[wallet_id |-> i, user_id |-> UserOrder[i], wallet_balance |-> 0] : i \in 1..n}
    /\ wallet_transaction = << >>
    /\ call = [p \in Calls |-> IdleCall]
    /\ before = [p \in Calls |-> NoBefore]
    /\ wasFinished = {}
    /\ nInputs = 0
    /\ user = {[user_id |-> u, user_phone |-> PhoneOf[u]] : u \in Users}
    /\ post = IdlePost

NextPosts ==
    \/ \E body \in UserBodies : ReceiveUser(body)
    \/ \E ok \in BOOLEAN : InsertUser(ok)
    \/ \E ok \in BOOLEAN : InsertUserWallet(ok)
    \/ \E body \in ApplyBodies : ReceiveApplication(body)
    \/ \E ok \in BOOLEAN : SelectEvent(ok)
    \/ \E ok \in BOOLEAN : SelectUser(ok)
    \/ \E ok \in BOOLEAN : InsertApplication(ok)
    \/ \E id \in EventIds : Receive("c1", id)
    \/ \E ok \in BOOLEAN : FinishStep("c1", ok)
    \/ \E a \in AppIds, body \in ApplicationBodies : PutApplication(a, body)

SpecPosts == InitPosts /\ [][NextPosts]_vars

\* ------------------------------------------------------------ properties
\* Slot p's invocation takes a step.
Steps(p) == InFlight(p) /\ call'[p] # call[p]

\* Slot p's invocation sends its response, with this status, in this step.
Responds(p, code) == Steps(p) /\ call'[p].pc = "done" /\ call'[p].response.status = code

\* No store operation returns an error in this step.
NoFaultNow == nInputs' = nInputs

\* The wallet rows of user u among the rows W.
WalletRows(W, u) == {w \in W : w.user_id = u}

\* The transactions of txs recorded for event e on wallet id w.
TxFor(txs, e, w) == SelectSeq(txs, LAMBDA t : t.transaction_event_id = e /\ t.wallet_id = w)

\* The transactions of txs recorded on a wallet of user u, the wallets being W.
TxOfUser(txs, W, u) ==
    SelectSeq(txs, LAMBDA t : \E w \in WalletRows(W, u) : t.wallet_id = w.wallet_id)

\* The applications to event e, among the rows app, that carry clock-out data.
ClockedOut(app, e) ==
    {a \in DOMAIN app : app[a].event_id = e /\ app[a].clock_out_qr_data # NULL}

\* The balance user u had in the wallet rows W (0 with no wallet).
BalanceIn(W, u) == IF WalletRows(W, u) = {} THEN 0
                   ELSE (CHOOSE w \in WalletRows(W, u) : TRUE).wallet_balance

\* C1: a finish call that reads an event whose stored status is finished
\* answers 400 (when the read returns the row) and changes no event,
\* application, wallet or wallet transaction.
C1_AlreadyFinishedRejected ==
    [][\A p \in Calls :
          (/\ call[p].pc = "loadEvent"
           /\ Steps(p)
           /\ call[p].id \in DOMAIN event
           /\ event[call[p].id].event_status = "finished")
          => /\ store' = store
             /\ call'[p].pc = "done"
             /\ NoFaultNow => call'[p].response.status = 400]_vars

C1_Witness ==
    \E p \in Calls : /\ call[p].pc = "done"
                     /\ call[p].response.status = 400
                     /\ event[call[p].id].event_status = "finished"
                     /\ wallet_transaction # << >>

\* C2: every (event, wallet) pair carries at most one wallet transaction.
C2_AtMostOneCreditPerEventWorker ==
    \A e \in EventIds : \A w \in wallet :
        Len(TxFor(wallet_transaction, e, w.wallet_id)) <= 1

\* C3: when a finish call that met no store error answers 200, and no other
\* request ran meanwhile, every application of the event that has clock-out
\* data has exactly one transaction for the event on its worker's wallet, and
\* that wallet's balance is its balance before the call plus the salary.
C3_EligibleCreditedExactlyOnce ==
    [][\A p \in Calls :
          (Responds(p, 200) /\ ~call[p].faulted /\ NoFaultNow)
          => \A a \in ClockedOut(application', call[p].id) :
                LET u == application'[a].user_id IN
                \E w \in WalletRows(wallet', u) :
                   /\ Len(TxFor(wallet_transaction', call[p].id, w.wallet_id)) = 1
                   /\ w.wallet_balance = BalanceIn(before[p].wallet, u)
                                         + Amount(event'[call[p].id].event_salary)]_vars

\* C4 as stated: no step of a finish call changes the wallet balance of, or adds
\* a transaction for, a worker whose application to the event has null clock-out data.
C4_NeverPaysWithoutClockOut ==
    [][\A p \in Calls : \A a \in DOMAIN application :
          (/\ Steps(p)
           /\ application[a].event_id = call[p].id
           /\ application[a].clock_out_qr_data = NULL)
          => LET u == application[a].user_id IN
             /\ BalanceIn(wallet', u) = BalanceIn(wallet, u)
             /\ TxOfUser(wallet_transaction', wallet', u)
                   = TxOfUser(wallet_transaction, wallet, u)]_vars

\* C4 amended: the eligibility query of a finish call returns exactly the
\* applications of the event that carry clock-out data at that moment, and no
\* step of the call changes the wallet balance of, or adds a transaction for, a
\* worker other than those of the applications that query returned.
C4_PaysOnlyQueriedClockOuts ==
    [][\A p \in Calls :
          /\ (call[p].pc = "queryApps" /\ Steps(p) /\ NoFaultNow)
             => {call'[p].applications[i].application_id :
                    i \in DOMAIN call'[p].applications}
                  = ClockedOut(application, call[p].id)
          /\ \A u \in Users :
                (/\ Steps(p)
                 /\ \A i \in DOMAIN call[p].applications :
                       call[p].applications[i].user_id # u)
                => /\ BalanceIn(wallet', u) = BalanceIn(wallet, u)
                   /\ TxOfUser(wallet_transaction', wallet', u)
                         = TxOfUser(wallet_transaction, wallet, u)]_vars

\* A call has paid one worker of the event and answered, and the other
\* application of the event, without clock-out data, got nothing.
C4_Witness ==
    \E p \in Calls : \E a \in DOMAIN application :
        /\ call[p].pc = "done"
        /\ call[p].response.status = 200
        /\ "processedCount" \in DOMAIN call[p].response
        /\ call[p].response.processedCount = 1
        /\ application[a].event_id = call[p].id
        /\ application[a].clock_out_qr_data = NULL
        /\ application[a].application_status = "applied"
        /\ TxOfUser(wallet_transaction, wallet, application[a].user_id) = << >>
        /\ BalanceIn(wallet, application[a].user_id) = 0

\* C5: once an event's status has been written finished and its clocked-out
\* applications are settled (paid, in status finished), no step adds a transaction
\* for it and no step of a finish call on it changes a wallet balance.
C5_FinishedIsTerminal ==
    [][\A e \in wasFinished :
          (/\ TxOfEvent(e) # << >>
           /\ \A a \in ClockedOut(application, e) :
                 application[a].application_status = "finished")
          => /\ TxOfEvent(e)' = TxOfEvent(e)
             /\ \A p \in Calls : \A u \in Users :
                   (Steps(p) /\ call[p].id = e)
                   => BalanceIn(wallet', u) = BalanceIn(wallet, u)]_vars

\* C6: every wallet's balance is the sum of the amounts of its transactions.
C6_BalanceIsSumOfTransactions ==
    \A w \in wallet : w.wallet_balance = SumAmounts(TxOfWallet(w.wallet_id))

\* C7: when a finish call that met no store error answers 200, the amounts of
\* the transactions of the event sum to (applications with clock-out data) x salary.
C7_EventTotalIsCountTimesSalary ==
    [][\A p \in Calls :
          (Responds(p, 200) /\ ~call[p].faulted /\ NoFaultNow)
          => SumAmounts(TxOfEvent(call[p].id)')
               = Cardinality(ClockedOut(application', call[p].id))
                 * Amount(event'[call[p].id].event_salary)]_vars

\* C8: a finish call whose query found no application with clock-out data sets
\* the event finished, changes no wallet and no transaction, and answers 200
\* with processedCount 0.
C8_EmptyFinish ==
    [][\A p \in Calls :
          (call[p].pc = "finishEmpty" /\ Steps(p) /\ NoFaultNow)
          => /\ event'[call[p].id].event_status = "finished"
             /\ wallet' = wallet
             /\ wallet_transaction' = wallet_transaction
             /\ call'[p].response.status = 200
             /\ "processedCount" \in DOMAIN call'[p].response
             /\ call'[p].response.processedCount = 0]_vars

\* C9: when a finish call answers 200, the event's stored status is finished.
C9_OkMeansFinished ==
    [][\A p \in Calls :
          Responds(p, 200) => event'[call[p].id].event_status = "finished"]_vars

\* C10: a finish call whose id names no event answers 404 and changes no
\* event, application, wallet or wallet transaction.
C10_UnknownEventNotFound ==
    [][\A p \in Calls :
          (call[p].pc = "loadEvent" /\ Steps(p) /\ call[p].id \notin DOMAIN event)
          => /\ store' = store
             /\ call'[p].pc = "done"
             /\ call'[p].response.status = 404]_vars

C10_Witness ==
    \E p \in Calls : /\ call[p].pc = "done"
                     /\ call[p].id \notin DOMAIN event
                     /\ call[p].response.status = 404
                     /\ nInputs = 1

\* ----------------------------------------------------- store failures
\* The store operations of the credit loop that write.
LoopWrites == {"createWallet", "updateBalance", "insertTx", "updateApp"}

\* The write that slot p's invocation issues in this step fails: the store
\* returns an error, or refuses a wallet insert for a user who has a wallet.
WriteFails(p) ==
    /\ call[p].pc \in LoopWrites
    /\ Steps(p)
    /\ \/ ~NoFaultNow
       \/ call[p].pc = "createWallet"
          /\ WalletRows(wallet, call[p].applications[call[p].k].user_id) # {}

\* C11: a finish call in which a store operation returned an error answers
\* 500, whichever operation it was.
C11_StoreFailureIs500 ==
    [][\A p \in Calls :
          (Steps(p) /\ call'[p].pc = "done" /\ (call[p].faulted \/ ~NoFaultNow))
          => call'[p].response.status = 500]_vars

\* C12: when a write of the credit loop fails at the k-th application, the
\* call answers 500 in that step and writes nothing; the event is not
\* finished; applications 1..k-1 keep their credit, their transaction and
\* their finished status; applications after the k-th are untouched.
C12_FailureStopsWithoutRollback ==
    [][\A p \in Calls :
          WriteFails(p)
          => LET c == call[p]
                 paid(u) == BalanceIn(wallet', u) - BalanceIn(before[p].wallet, u)
             IN /\ Responds(p, 500)
                /\ store' = store
                /\ event'[c.id].event_status # "finished"
                /\ c.processed = SubSeq(c.applications, 1, c.k - 1)
                /\ \A i \in 1..(c.k - 1) :
                      /\ application'[c.applications[i].application_id].application_status
                            = "finished"
                      /\ paid(c.applications[i].user_id) = Amount(c.event_salary)
                      /\ \E w \in WalletRows(wallet', c.applications[i].user_id) :
                            TxFor(wallet_transaction', c.id, w.wallet_id) # << >>
                /\ \A i \in (c.k + 1)..Len(c.applications) :
                      /\ application'[c.applications[i].application_id]
                            = before[p].application[c.applications[i].application_id]
                      /\ paid(c.applications[i].user_id) = 0]_vars

\* A write failed at the second application of a call that answered 500.
C12_Witness ==
    \E p \in Calls : /\ call[p].pc = "done"
                     /\ call[p].response.status = 500
                     /\ Len(wallet_transaction) >= 1
                     /\ \E a \in DOMAIN application :
                           application[a].application_status = "finished"
                     /\ \E a \in DOMAIN application :
                           /\ application[a].clock_out_qr_data # NULL
                           /\ application[a].application_status # "finished"
                     /\ \A e \in DOMAIN event : event[e].event_status # "finished"

\* ------------------------------------------------------ the 200 response
\* The sequence s has no element twice.
NoRepeat(s) == \A i, j \in DOMAIN s : s[i] = s[j] => i = j

\* The set of the elements of the sequence s.
Range(s) == {s[i] : i \in DOMAIN s}

\* C13: a 200 response of a finish call that found eligible applications
\* lists exactly the (application, worker) pairs for which the call wrote a
\* balance and inserted a transaction, each once; each listed worker has a
\* transaction for the event; processedCount is the length of the list.
C13_ProcessedIsWhatWasCredited ==
    [][\A p \in Calls :
          (Responds(p, 200) /\ call[p].applications # << >>)
          => LET r == call'[p].response IN
             /\ "processedCount" \in DOMAIN r
             /\ Range(r.processed) = Range(call[p].credited)
             /\ Len(r.processed) = Len(call[p].credited)
             /\ NoRepeat(r.processed)
             /\ r.processedCount = Len(r.processed)
             /\ \A i \in DOMAIN r.processed :
                   \E w \in WalletRows(wallet', r.processed[i].user_id) :
                      TxFor(wallet_transaction', call[p].id, w.wallet_id) # << >>]_vars

\* A call has answered 200 with two pairs in its processed list.
C13_Witness ==
    \E p \in Calls : /\ call[p].pc = "done"
                     /\ call[p].response.status = 200
                     /\ "processedCount" \in DOMAIN call[p].response
                     /\ call[p].response.processedCount = 2
                     /\ Len(wallet_transaction) >= 2

\* --------------------------------------------------- overlapping calls
\* Slot p's invocation has passed the guard on event e and not yet returned.
PastGuard(p, e) == InFlight(p) /\ call[p].pc # "loadEvent" /\ call[p].id = e

\* C14: nothing but the stored status keeps a finish call out: while another
\* call on the same event is past the guard and has not written the status,
\* a call that reads the event passes the guard too, and each call appends
\* its own transaction for a worker whatever transactions the worker has
\* for the event.
C14_GuardIsCheckThenAct ==
    [][\A p \in Calls :
          /\ (/\ call[p].pc = "loadEvent"
              /\ Steps(p)
              /\ NoFaultNow
              /\ call[p].id \in DOMAIN event
              /\ event[call[p].id].event_status # "finished")
             => call'[p].pc = "queryApps"
          /\ (call[p].pc = "insertTx" /\ Steps(p) /\ NoFaultNow)
             => Len(TxFor(wallet_transaction', call[p].id, call[p].walletId))
                  = Len(TxFor(wallet_transaction, call[p].id, call[p].walletId)) + 1]_vars

\* Two calls on one event are both past the guard, the event is not
\* finished, and one wallet has two transactions for the event.
C14_Witness ==
    \E e \in DOMAIN event : \E w \in wallet :
       /\ \A p \in Calls : PastGuard(p, e)
       /\ event[e].event_status # "finished"
       /\ e \notin wasFinished
       /\ Len(TxFor(wallet_transaction, e, w.wallet_id)) = 2

\* ------------------------------------- two events sharing a worker
\* Two events, "e1" and "e2"; user "u1" has applied to both.
InitTwo == InitRows({"e1", "e2"})

\* Finish requests only, overlapping, on either event.
NextTwo ==
    \/ \E p \in Calls, id \in EventIds : Receive(p, id)
    \/ \E p \in Calls, ok \in BOOLEAN : FinishStep(p, ok)

SpecTwo == InitTwo /\ [][NextTwo]_vars

\* C15: a finish call writes the balance it read plus its salary, whatever
\* the wallet holds by then; what a call of another event has added to the
\* same wallet in between is overwritten.
C15_BalanceWriteUsesStaleRead ==
    [][\A p \in Calls :
          (call[p].pc = "updateBalance" /\ Steps(p) /\ NoFaultNow)
          => \A w \in wallet' :
                w.wallet_id = call[p].walletId
                => w.wallet_balance = call[p].currentBalance + Amount(call[p].event_salary)]_vars

\* Both events are finished by calls that answered 200, one wallet has a
\* transaction of each event, and its balance is less than their sum.
C15_Witness ==
    /\ \A p \in Calls : call[p].pc = "done" /\ call[p].response.status = 200
    /\ call["c1"].id # call["c2"].id
    /\ \E w \in wallet :
          /\ \A e \in EventIds : Len(TxFor(wallet_transaction, e, w.wallet_id)) = 1
          /\ Len(TxOfWallet(w.wallet_id)) = 2
          /\ w.wallet_balance < SumAmounts(TxOfWallet(w.wallet_id))

\* C16 as stated: at most one finish invocation is between its first store
\* operation and its response at any time.
C16_OneFinishAtATime == Cardinality({p \in Calls : InFlight(p)}) <= 1

\* C16: finish invocations overlap, and what each keeps to itself is its
\* local state: a step is a step of one invocation, and the id, the salary
\* read, the application list, the loop index and the processed list of a
\* running invocation change only as its own loop advances.
C16_OnlyLocalsArePrivate ==
    [][\A p \in Calls :
          InFlight(p)
          => /\ call'[p].id = call[p].id
             /\ call'[p] # call[p] => \A q \in Calls \ {p} : call'[q] = call[q]
             /\ (InFlight(p)' /\ call[p].pc \notin {"loadEvent", "queryApps"})
                => /\ call'[p].applications = call[p].applications
                   /\ call'[p].event_salary = call[p].event_salary
                   /\ call'[p].k \in {call[p].k, call[p].k + 1}
                   /\ Len(call'[p].processed) >= Len(call[p].processed)
                   /\ SubSeq(call'[p].processed, 1, Len(call[p].processed))
                        = call[p].processed]_vars

\* Two invocations are running and each has already credited a worker.
C16_Witness ==
    \A p \in Calls : InFlight(p) /\ call[p].credited # << >>

\* ------------------------------------------------- transaction origins
\* The transaction t names an event and no withdrawal.
FromEvent(t) == t.transaction_event_id # NULL /\ t.transaction_wd_id = NULL

\* C17: every wallet transaction names exactly one origin, an event row and
\* no withdrawal, and the transaction a finish call appends names the event
\* the call is finishing.
C17_TransactionsNameTheirEvent ==
    /\ [](\A i \in DOMAIN wallet_transaction :
             /\ FromEvent(wallet_transaction[i])
             /\ wallet_transaction[i].transaction_event_id \in DOMAIN event)
    /\ [][\A p \in Calls :
             (call[p].pc = "insertTx" /\ Steps(p) /\ NoFaultNow)
             => /\ Len(wallet_transaction') = Len(wallet_transaction) + 1
                /\ wallet_transaction'[Len(wallet_transaction')].transaction_event_id
                      = call[p].id
                /\ wallet_transaction'[Len(wallet_transaction')].transaction_wd_id
                      = NULL]_vars

\* Transactions of two calls are in the store.
C17_Witness ==
    /\ Len(wallet_transaction) >= 2
    /\ \E p \in Calls : call[p].pc = "done" /\ call[p].response.status = 200
    /\ \E p \in Calls : call[p].pc = "updateApp"

\* ------------------------------------------------------ order of the loop
\* The row at index i of the list slot p's invocation got from its query.
Row(p, i) == call[p].applications[i]

\* C20: a finish call works on its applications in the order of its query,
\* one at a time: every write of the loop is on the wallet of the worker, or
\* on the application, at the loop index; the index moves by one when, and
\* only when, the application at the index has been updated; the rows
\* before the index are the processed list, in the same order.
C20_LoopFollowsQueryOrder ==
    [][\A p \in Calls :
          (Steps(p) /\ call[p].pc \in LoopWrites \cup {"readWallet"})
          => LET c == call[p]
                 row == Row(p, c.k)
             IN /\ c.k \in 1..Len(c.applications)
                /\ c.processed = SubSeq(c.applications, 1, c.k - 1)
                /\ \A a \in DOMAIN application :
                      application'[a] # application[a] => a = row.application_id
                /\ \A w \in wallet' \ wallet : w.user_id = row.user_id
                /\ wallet_transaction' # wallet_transaction
                      => \E w \in WalletRows(wallet, row.user_id) :
                            wallet_transaction'[Len(wallet_transaction')].wallet_id
                               = w.wallet_id
                /\ call'[p].k = IF ~InFlight(p)' THEN 0
                                ELSE IF c.pc = "updateApp" THEN c.k + 1 ELSE c.k
                /\ (c.pc = "updateApp" /\ InFlight(p)')
                      => application'[row.application_id].application_status = "finished"
                /\ call'[p].pc = "done"
                      => call'[p].response.status = 500
                /\ call'[p].pc = "markFinished"
                      => call'[p].processed = c.applications]_vars

\* A call is at the second application of its list, the first one credited
\* and updated, the second not yet.
C20_Witness ==
    \E p \in Calls :
       /\ call[p].pc = "insertTx"
       /\ call[p].k = 2
       /\ call[p].processed = <<call[p].applications[1]>>
       /\ application[call[p].applications[1].application_id].application_status = "finished"
       /\ application[call[p].applications[2].application_id].application_status # "finished"

\* ------------------------------------------------------ POST requests
\* The POST invocation sends its response, with this status, in this step.
PostResponds(code) ==
    /\ ~PostFree
    /\ post'.pc = "done"
    /\ post'.response.status = code

\* C18: no two application rows have the same event and user, and a POST
\* /api/applications whose insert finds a row for its event and user
\* answers 409 and leaves the application rows as they are.
C18_OneApplicationPerEventUser ==
    /\ [](\A a, b \in DOMAIN application :
             (application[a].event_id = application[b].event_id
              /\ application[a].user_id = application[b].user_id) => a = b)
    /\ [][(post.pc = "insertApplication" /\ post' # post /\ NoFaultNow
           /\ Applied(post.body.event_id, post.body.user_id) # {})
          => /\ PostResponds(409)
             /\ post'.response = AlreadyApplied
             /\ application' = application]_vars

\* A POST for a pair that has a row has been answered 409 after a POST for
\* a new pair was answered 201.
C18_Witness ==
    /\ post.pc = "done"
    /\ post.response = AlreadyApplied
    /\ \E a \in DOMAIN application : a \notin {"a1", "a2"}

\* C19 as stated: when POST /api/users answers 201, the new user has a
\* wallet with balance 0.
C19_CreatedUserHasWallet ==
    [][PostResponds(201) /\ post.pc = "insertWallet"
       => \E w \in wallet' : w.user_id = post.user_id /\ w.wallet_balance = 0]_vars

\* ------------------------------------------------- order within the loop
\* User u's balance is what it was when slot p's request arrived plus the
\* salary the invocation read, and a transaction of that amount for the
\* event is on u's wallet.
CreditedBy(p, u) ==
    /\ BalanceIn(wallet, u) = BalanceIn(before[p].wallet, u) + Amount(call[p].event_salary)
    /\ \E w \in WalletRows(wallet, u) :
          \E i \in DOMAIN wallet_transaction :
             /\ wallet_transaction[i].wallet_id = w.wallet_id
             /\ wallet_transaction[i].transaction_event_id = call[p].id
             /\ wallet_transaction[i].transaction_amount = Amount(call[p].event_salary)

\* C21: with one finish call at a time, an application the running call has
\* set to finished has its worker's balance raised by the salary and its
\* transaction recorded; and while the call is about to update an
\* application, that application's worker is already credited.
C21_FinishedMeansCredited ==
    \A p \in Calls :
       InFlight(p)
       => /\ \A i \in DOMAIN call[p].processed :
                /\ application[call[p].processed[i].application_id].application_status
                      = "finished"
                /\ CreditedBy(p, call[p].processed[i].user_id)
          /\ call[p].pc = "updateApp"
                => CreditedBy(p, call[p].applications[call[p].k].user_id)

\* A call has set its first application to finished and is working on the
\* second, whose worker has no transaction yet.
C21_Witness ==
    \E p \in Calls :
       /\ call[p].pc = "updateBalance"
       /\ Len(call[p].processed) = 1
       /\ application[call[p].processed[1].application_id].application_status = "finished"
       /\ Len(wallet_transaction) = 1

\* C22: a finish call writes the event only as its last store operation;
\* on the credited path it does so when every application of its list is
\* credited and set to finished; and a call in which a store operation has
\* returned an error does not write the event.
C22_EventWrittenLastAndOnlyWithoutFailure ==
    [][\A p \in Calls :
          /\ (Steps(p) /\ call[p].pc \notin {"markFinished", "finishEmpty"})
                => event' = event
          /\ (Steps(p) /\ call[p].pc = "markFinished" /\ NoFaultNow)
                => /\ call[p].processed = call[p].applications
                   /\ \A i \in DOMAIN call[p].applications :
                         /\ application[call[p].applications[i].application_id]
                               .application_status = "finished"
                         /\ CreditedBy(p, call[p].applications[i].user_id)
          /\ (Steps(p) /\ event' # event)
                => ~call[p].faulted /\ NoFaultNow]_vars

\* ------------------------------------------------- effect of a 200 call
\* C23: when a finish call answers 200, with no other request in between,
\* every application of the event with clock-out data has status finished,
\* every application of the event without it has the status it had when
\* the request arrived, and the event's status is finished.
C23_StatusesAfterSuccess ==
    [][\A p \in Calls :
          Responds(p, 200)
          => /\ event'[call[p].id].event_status = "finished"
             /\ \A a \in DOMAIN application' :
                   application'[a].event_id = call[p].id
                   => IF application'[a].clock_out_qr_data # NULL
                      THEN application'[a].application_status = "finished"
                      ELSE application'[a].application_status
                              = before[p].application[a].application_status]_vars

\* ---------------------------------------------------- wallet creation
\* C24: no user has two wallets; the wallet insert of a finish call adds one
\* wallet, of the worker at the loop index, with balance 0; and when a call
\* answers 200, each worker of its list who had no wallet when the request
\* arrived has one whose balance is the salary.
C24_OneWalletHoldingTheSalary ==
    /\ [](\A u \in Users : Cardinality(WalletsOf(u)) <= 1)
    /\ [][\A p \in Calls :
             /\ (Steps(p) /\ call[p].pc = "createWallet" /\ wallet' # wallet)
                   => \E w \in wallet' :
                         /\ wallet' = wallet \cup {w}
                         /\ w \notin wallet
                         /\ w.user_id = call[p].applications[call[p].k].user_id
                         /\ w.wallet_balance = 0
             /\ Responds(p, 200)
                   => \A i \in DOMAIN call[p].processed :
                         LET u == call[p].processed[i].user_id IN
                         WalletRows(before[p].wallet, u) = {}
                         => \E w \in wallet' :
                               /\ WalletRows(wallet', u) = {w}
                               /\ w.wallet_balance = Amount(call[p].event_salary)]_vars

\* ------------------------------------------------------- salary coercion
\* The values of event_salary the handler's coercion is applied to.
SalaryInputs == {Num(0), Num(2), Text("12"), Text("abc"), JsNull, JsUndefined}

\* The values among them that are no valid number.
NotANumber == {Text("abc"), JsNull, JsUndefined}

\* One event whose row reaches the handler with any of these values of
\* event_salary: the handler does not rely on the column's type.
InitSalaries ==
    /\ \E s \in SalaryInputs :
          event = [e \in {"e1"} |-> [event_salary |-> s, event_status |-> "posted"]]
    /\ \E clocked \in SUBSET {"a1", "a2"} :
          application = [a \in {"a1", "a2"} |->
              [event_id |-> AppEvent[a], user_id |-> AppUser[a],
               application_status |-> "applied",
               clock_out_qr_data |-> IF a \in clocked THEN QR ELSE NULL]]
    /\ \E n \in 0..Cardinality(Users) :
          wallet = {[wallet_id |-> i, user_id |-> UserOrder[i], wallet_balance |-> 0] : i \in 1..n}
    /\ wallet_transaction = << >>
    /\ call = [p \in Calls |-> IdleCall]
    /\ before = [p \in Calls |-> NoBefore]
    /\ wasFinished = {}
    /\ nInputs = 0
    /\ user = {[user_id |-> u, user_phone |-> PhoneOf[u]] : u \in Users}
    /\ post = IdlePost

\* Finish requests, one at a time.
NextSalaries ==
    \/ \E id \in EventIds : (\A q \in Calls : ~InFlight(q)) /\ Receive("c1", id)
    \/ \E ok \in BOOLEAN : FinishStep("c1", ok)

SpecSalaries == InitSalaries /\ [][NextSalaries]_vars

\* The amount the claim gives for the salary value v.
SalaryAsNumber(v) ==
    IF v \in NotANumber THEN 0
    ELSE IF v = Text("12") THEN 12
    ELSE v.number

\* C25: the balance a finish call writes is the balance it read plus the
\* salary as a number, and the transaction it appends has that amount, with
\* nothing taken off; for a salary that is no valid number the amount is 0,
\* and the call is not turned away for it: absent store errors it answers
\* 200 with the event finished, its applications finished and transactions
\* of amount 0.
C25_AmountIsTheSalaryOrZero ==
    [][\A p \in Calls :
          LET c == call[p]
              amount == SalaryAsNumber(c.event_salary)
          IN
          /\ (Steps(p) /\ c.pc = "updateBalance" /\ NoFaultNow)
                => \E w \in wallet' : /\ w.wallet_id = c.walletId
                                      /\ w.wallet_balance = c.currentBalance + amount
          /\ (Steps(p) /\ c.pc = "insertTx" /\ NoFaultNow)
                => wallet_transaction'[Len(wallet_transaction')].transaction_amount = amount
          /\ (/\ Steps(p) /\ NoFaultNow /\ ~c.faulted
              /\ c.pc # "loadEvent" /\ c.event_salary \in NotANumber)
                => /\ call'[p].pc = "done" => call'[p].response.status = 200
                   /\ Responds(p, 200)
                         => /\ event'[c.id].event_status = "finished"
                            /\ \A i \in DOMAIN c.applications :
                                  application'[c.applications[i].application_id]
                                     .application_status = "finished"
                            /\ Len(wallet_transaction') >= Len(c.applications)
                            /\ \A i \in DOMAIN wallet_transaction' :
                                  wallet_transaction'[i].transaction_amount = 0]_vars

\* A call on an event whose salary is null has answered 200 for one
\* application, with a transaction of amount 0 and the event finished.
C25_Witness ==
    /\ call["c1"].pc = "done"
    /\ call["c1"].response.status = 200
    /\ "processedCount" \in DOMAIN call["c1"].response
    /\ call["c1"].response.processedCount = 1
    /\ event["e1"].event_salary = JsNull
    /\ event["e1"].event_status = "finished"
    /\ Len(wallet_transaction) = 1
    /\ wallet_transaction[1].transaction_amount = 0

\* ------------------------------------------------------------ append only
\* C26: a step of a finish call leaves every wallet transaction there is as
\* it is and in its place, adding at most one row at the end (exactly one
\* when its insert succeeds), and removes no event, application or wallet.
C26_FinishOnlyAppends ==
    [][\A p \in Calls :
          Steps(p)
          => /\ Len(wallet_transaction') \in
                   {Len(wallet_transaction), Len(wallet_transaction) + 1}
             /\ SubSeq(wallet_transaction', 1, Len(wallet_transaction)) = wallet_transaction
             /\ (call[p].pc = "insertTx" /\ NoFaultNow)
                   => Len(wallet_transaction') = Len(wallet_transaction) + 1
             /\ DOMAIN event' = DOMAIN event
             /\ DOMAIN application' = DOMAIN application
             /\ \A w \in wallet : \E v \in wallet' :
                   v.wallet_id = w.wallet_id /\ v.user_id = w.user_id]_vars

\* A call is about to insert a transaction for a wallet that has one for
\* the event already, and both wallets exist.
C26_Witness ==
    \E p \in Calls :
       /\ call[p].pc = "insertTx"
       /\ TxFor(wallet_transaction, call[p].id, call[p].walletId) # << >>
       /\ Cardinality(wallet) = 2

\* ------------------------------------------------- paying a second time
\* C27: the list a finish call gets from its query has the applications of
\* the event with clock-out data, whatever their status, those in status
\* finished included; and the call appends a transaction for an application
\* of its list that is in status finished as for any other.
C27_FinishedApplicationsAreEligible ==
    [][\A p \in Calls :
          /\ (Steps(p) /\ call[p].pc = "queryApps" /\ NoFaultNow)
                => {call'[p].applications[i].application_id :
                       i \in DOMAIN call'[p].applications}
                   = {a \in DOMAIN application :
                         /\ application[a].event_id = call[p].id
                         /\ application[a].clock_out_qr_data # NULL}
          /\ (/\ Steps(p) /\ call[p].pc = "insertTx" /\ NoFaultNow
              /\ application[call[p].applications[call[p].k].application_id]
                    .application_status = "finished")
                => Len(TxFor(wallet_transaction', call[p].id, call[p].walletId))
                     = Len(TxFor(wallet_transaction, call[p].id, call[p].walletId)) + 1]_vars

\* An application was in status finished, with a transaction for the event
\* on its worker's wallet, when the request of a call arrived that has now
\* credited it again.
C27_Witness ==
    \E p \in Calls : \E i \in DOMAIN call[p].credited :
       /\ InFlight(p)
       /\ before[p].application[call[p].credited[i].application_id].application_status
             = "finished"
       /\ Len(TxFor(wallet_transaction, call[p].id, call[p].walletId)) = 2
       /\ call[p].id \notin wasFinished

\* --------------------------------------------------------- monotonicity
\* C28: no step lowers the balance of a wallet.
C28_BalancesNeverDecrease ==
    [][\A w \in wallet : \A v \in wallet' :
          v.wallet_id = w.wallet_id => v.wallet_balance >= w.wallet_balance]_vars

\* ------------------------------------------------------ late clock-outs
\* The applications of event e with clock-out data that are not in the list
\* slot p's invocation got from its query.
ClockedOutLate(p, e) ==
    {a \in ClockedOut(application, e) :
        \A i \in DOMAIN call[p].applications : call[p].applications[i].application_id # a}

\* C29: a finish call credits the rows of its one query only: an
\* application that gets its clock-out data after the query is not on the
\* list the call credits, the balance and the transactions of its worker
\* are untouched by every step of the call, and the event update of the
\* call, when it succeeds, still sets the event to finished with status 200.
C29_LateClockOutIsNotPaid ==
    [][\A p \in Calls :
          (Steps(p) /\ call[p].pc \notin {"loadEvent", "queryApps"})
          => /\ call'[p].pc # "done" => call'[p].applications = call[p].applications
             /\ \A a \in ClockedOutLate(p, call[p].id) :
                   LET u == application[a].user_id IN
                   /\ BalanceIn(wallet', u) = BalanceIn(wallet, u)
                   /\ TxOfUser(wallet_transaction', wallet', u)
                         = TxOfUser(wallet_transaction, wallet, u)
                   /\ application'[a] = application[a]
                   /\ \A i \in DOMAIN call'[p].credited : call'[p].credited[i].user_id # u
                   /\ (call[p].pc \in {"markFinished", "finishEmpty"} /\ NoFaultNow)
                         => /\ event'[call[p].id].event_status = "finished"
                            /\ Responds(p, 200)]_vars

\* A call on the credited path, past its query, and an application of the
\* event, not on its list, that has clock-out data and whose worker has a
\* wallet.
C29_Witness ==
    \E p \in Calls : \E a \in ClockedOutLate(p, call[p].id) :
       /\ call[p].pc = "markFinished"
       /\ WalletsOf(application[a].user_id) # {}
       /\ TxOfUser(wallet_transaction, wallet, application[a].user_id) = << >>

\* ------------------------------------------------------------ termination
\* Finish requests only, overlapping.
NextFinish ==
    \/ \E p \in Calls, id \in EventIds : Receive(p, id)
    \/ \E p \in Calls, ok \in BOOLEAN : FinishStep(p, ok)

\* Every store operation a running invocation awaits returns, with data or
\* with an error.
StoreReturns == \A p \in Calls : WF_vars(\E ok \in BOOLEAN : FinishStep(p, ok))

\* One event with two applications, any of them clocked out; "u1" has a
\* wallet and "u2" has none.
InitLive ==
    /\ Init
    /\ {w.user_id : w \in wallet} = {"u1"}

SpecLive == InitLive /\ [][NextFinish]_vars /\ StoreReturns

\* C30: every finish invocation comes to its response; the response has
\* status 200, 400, 404 or 500 and is not followed by another one of the
\* same invocation; and the loop takes an application of the list at most
\* once: the index stays within the list and the processed list is never
\* longer than the part of the list before the index.
C30_EveryCallResponds ==
    /\ \A p \in Calls : InFlight(p) ~> (call[p].pc = "done")
    /\ [][\A p \in Calls :
             /\ (Steps(p) /\ call'[p].pc = "done")
                   => call'[p].response.status \in {200, 400, 404, 500}
             /\ (call[p].pc = "done" /\ call'[p] # call[p])
                   => call'[p].pc = "loadEvent"
             /\ (Steps(p) /\ InFlight(p)')
                   => call'[p].pc # "loadEvent"]_vars
    /\ [](\A p \in Calls :
             call[p].pc \in LoopWrites \cup {"readWallet", "markFinished"}
             => /\ call[p].k \in 1..(Len(call[p].applications) + 1)
                /\ call[p].pc # "markFinished" => call[p].k <= Len(call[p].applications)
                /\ Len(call[p].processed) = call[p].k - 1
                /\ Len(call[p].credited) <= call[p].k)

\* Both invocations have sent their response, one of them after a loop of
\* two iterations.
C30_Witness ==
    /\ \A p \in Calls : call[p].pc = "done"
    /\ \E p \in Calls : /\ "processedCount" \in DOMAIN call[p].response
                        /\ call[p].response.processedCount = 2

====
